---- MODULE Spec2Model ----
(***************************************************************************)
(* FinanzaFlow: the recurrence expansion engine and the rule lifecycle      *)
(* manager of App.tsx (transactions, recurrence rules, recurrence           *)
(* exceptions, account balances, categories, displayed month) and the       *)
(* submit handler of TransactionForm.tsx.                                   *)
(*                                                                          *)
(* Dates are ISO calendar days "YYYY-MM-DD"; they are modelled as the       *)
(* integer YYYYMMDD, whose order is the order of the ISO strings.           *)
(* An absent optional field (endDate, recurrenceRuleId, quincenaN) is 0     *)
(* or "NONE".  Arrays whose order no handler reads are modelled as sets.    *)
(* The free-text note of a transaction or rule is not modelled.             *)
(***************************************************************************)
EXTENDS Integers, FiniteSets, Sequences, TLC

VARIABLES
    transactions,          \* App.tsx:187  Transaction[]
    recurrenceRules,       \* App.tsx:190  RecurrenceRule[]
    recurrenceExceptions,  \* App.tsx:191  {ruleId, date}[]
    accounts,              \* App.tsx:189  account id -> balance
    categories,            \* App.tsx:188  ids of the Category[]
    dateFilter,            \* App.tsx:212  [month 0..11, year, period]
    nextId,                \* number of ids handed out by generateId()
    utcOffsetPositive,     \* the browser's time zone is east of UTC
    remoteError,           \* Supabase answered the last operation with an error
    generated,             \* what the expansion effect added in the last operation
    opCount,               \* number of user operations performed so far
    confirmModal,          \* App.tsx:200  the confirmation modal: open or not, and
                           \* what its onConfirm closure captured
    deletedSeries,         \* history: ids of the rules removed by series deletion
    lastOp                 \* history: the operation that produced this state, the
                           \* transaction it was aimed at, what the form handed over
                           \* (input, form) and the transaction that was saved

vars == <<transactions, recurrenceRules, recurrenceExceptions, accounts,
          categories, dateFilter, nextId, utcOffsetPositive, remoteError, generated,
          opCount, confirmModal, deletedSeries, lastOp>>

----------------------------------------------------------------------------
(* Bounds *)

\* ids that generateId() may hand out in one behaviour
MaxId == 4
\* months the user may navigate forward from the first displayed month
MaxMonthsAhead == 2
\* user operations (saves, deletes, month changes) in one behaviour
MaxOps == 3
\* successive calls of the expansion on one input
MaxExpandCalls == 2
\* leading operations of a behaviour in which the side paths are taken: a
\* failing remote store, an incomplete form, the deletion of a category, a
\* change of period
MaxEarlyOps == 2

NoRule == 0
NoDate == 0
NoCategory == "NONE"

----------------------------------------------------------------------------
(* Calendar *)

MkDate(y, m, d) == y * 10000 + m * 100 + d
YearOf(date) == date \div 10000
MonthOf(date) == (date \div 100) % 100
DayOf(date) == date % 100

IsLeapYear(y) == (y % 4 = 0 /\ y % 100 # 0) \/ y % 400 = 0

\* mutant: February has 28 days in every year
DaysInMonth_NoLeap(y, m) ==
    IF m = 2 THEN 28 ELSE IF m \in {4, 6, 9, 11} THEN 30 ELSE 31

\* m is 1..12
DaysInMonth(y, m) ==
    IF m = 2 THEN (IF IsLeapYear(y) THEN 29 ELSE 28)
    ELSE IF m \in {4, 6, 9, 11} THEN 30 ELSE 31

Min(a, b) == IF a <= b THEN a ELSE b

\* Date.setDate(getDate() - 1) on a local-midnight date
PrevDay(date) ==
    IF DayOf(date) > 1 THEN date - 1
    ELSE IF MonthOf(date) > 1
         THEN MkDate(YearOf(date), MonthOf(date) - 1,
                     DaysInMonth(YearOf(date), MonthOf(date) - 1))
         ELSE MkDate(YearOf(date) - 1, 12, 31)

\* localMidnight.toISOString().split('T')[0]: the UTC calendar day of a local
\* midnight, which is the previous day when the zone is east of UTC
ToISODate(date, east) == IF east THEN PrevDay(date) ELSE date

----------------------------------------------------------------------------
(* Recurrence expansion engine (utils.ts, generateMissingRecurringTransactions) *)

\* step 1: the rule is active in the target month (m is 1..12)
ActiveInMonth(rule, y, m) ==
    /\ ~(rule.startDate > MkDate(y, m, DaysInMonth(y, m)))
    /\ ~(rule.endDate # NoDate /\ rule.endDate < MkDate(y, m, 1))

\* mutant: a second-quincena rule keeps an anchor day in the first half
ResolveDay_NoShift(rule, y, m) ==
    LET day == Min(rule.baseDateDay, DaysInMonth(y, m))
    IN  IF rule.frequency = "BIWEEKLY" /\ rule.quincenaN = "Q1" /\ day > 15 THEN 15 ELSE day

\* step 2: the day of the month the rule's instance lands on
ResolveDay(rule, y, m) ==
    LET dim == DaysInMonth(y, m)
        day == Min(rule.baseDateDay, dim)
    IN  IF rule.frequency = "BIWEEKLY"
        THEN IF rule.quincenaN = "Q1" /\ day > 15 THEN 15
             ELSE IF rule.quincenaN = "Q2" /\ day <= 15 THEN Min(day + 15, dim)
             ELSE day
        ELSE day

CandidateDate(rule, y, m) == MkDate(y, m, ResolveDay(rule, y, m))

\* mutant: only the month-level activity check bounds the candidate
WithinBounds_MonthOnly(rule, cand) == TRUE

\* step 3: the candidate lies within [startDate, endDate]
WithinBounds(rule, cand) ==
    /\ ~(cand < rule.startDate)
    /\ ~(rule.endDate # NoDate /\ cand > rule.endDate)

\* mutant: a taken slot is not recognised
AlreadyExists_Never(rule, cand, existing) == FALSE

\* step 4: the slot is already materialized
AlreadyExists(rule, cand, existing) ==
    \E t \in existing : t.recurrenceRuleId = rule.id /\ t.date = cand

\* step 4: the slot was deleted by the user
IsException(rule, cand, exceptions) ==
    \E e \in exceptions : e.ruleId = rule.id /\ e.date = cand

\* the rules that produce a transaction for the target month (month is 0..11)
GeneratingRules(rules, existing, month, year, exceptions) ==
    {r \in rules :
        /\ ActiveInMonth(r, year, month + 1)
        /\ WithinBounds(r, CandidateDate(r, year, month + 1))
        /\ ~AlreadyExists(r, CandidateDate(r, year, month + 1), existing)
        /\ ~IsException(r, CandidateDate(r, year, month + 1), exceptions)}

\* mutant: the synthesized transaction is not linked to its rule
Materialize_Unlinked(rule, cand, id) ==
    [id |-> id, amount |-> rule.amount, type |-> rule.type, date |-> cand,
     categoryId |-> rule.categoryId, accountId |-> rule.accountId,
     isRecurring |-> FALSE, recurrenceRuleId |-> NoRule]

\* step 5: the transaction synthesized for a rule
Materialize(rule, cand, id) ==
    [id |-> id, amount |-> rule.amount, type |-> rule.type, date |-> cand,
     categoryId |-> rule.categoryId, accountId |-> rule.accountId,
     isRecurring |-> TRUE, recurrenceRuleId |-> rule.id]

\* expand(rules, existingTransactions, targetMonth, targetYear, exceptions);
\* the k-th generating rule (by id) gets the fresh id firstId + k
GenerateMissingRecurringTransactions(rules, existing, month, year, exceptions, firstId) ==
    LET gen == GeneratingRules(rules, existing, month, year, exceptions)
        Rank(r) == Cardinality({q \in gen : q.id <= r.id})
    IN  {Materialize(r, CandidateDate(r, year, month + 1), firstId + Rank(r)) : r \in gen}

----------------------------------------------------------------------------
(* Records *)

NoTx ==
    [id |-> 0, amount |-> 0, type |-> "NONE", date |-> NoDate, categoryId |-> "NONE",
     accountId |-> "NONE", isRecurring |-> FALSE, recurrenceRuleId |-> NoRule]

\* no recurrence options: the operation is not a save
NoOptions ==
    [createRule |-> FALSE, frequency |-> "NONE", quincenaN |-> "NONE", updateFuture |-> FALSE]

\* the confirmation modal when it is closed
NoModal == [isOpen |-> FALSE, tx |-> NoTx, transactions |-> {}]

\* DEFAULT_ACCOUNTS
AccountIds == {"a1", "a2"}

\* the categories loaded for the user: one of expenses, one of income
CategoryIds == {"c1", "c2"}

\* amount (the text of the input), type, category and account a user enters
\* in the form
FormValues ==
    {[amount |-> "100", type |-> "EXPENSE", categoryId |-> "c1", accountId |-> "a1"],
     [amount |-> "500", type |-> "INCOME", categoryId |-> "c2", accountId |-> "a2"]}

\* forms with an empty amount, with no category selected, with no account
IncompleteFormValues ==
    {[amount |-> "", type |-> "EXPENSE", categoryId |-> "c1", accountId |-> "a1"],
     [amount |-> "100", type |-> "EXPENSE", categoryId |-> "", accountId |-> "a1"],
     [amount |-> "500", type |-> "INCOME", categoryId |-> "c2", accountId |-> ""]}

\* the NaN that parseFloat returns for a text that is no number; no amount
\* of the model is negative
NaN == 0 - 1

\* parseFloat(amount)
ParseFloat(text) ==
    CASE text = "100" -> 100
      [] text = "500" -> 500
      [] OTHER -> NaN

\* new Date(): the day the application is used
Today == 20231231

\* dates a user picks in the form
FormDates == {Today, 20240115, 20240201}

\* the dates an 'update future' edit can move the instance to: those
\* above and a later day of January 2024
UpdateFutureDates == FormDates \cup {20240120}

\* getInitialDateFilter(): the month (0..11), year and period displayed first
InitialDateFilter == [month |-> 11, year |-> 2023, period |-> "ALL"]

\* months between the first displayed month and the given one
MonthsFromStart(month, year) ==
    (year - InitialDateFilter.year) * 12 + (month - InitialDateFilter.month)

\* getQuincena(date)
GetQuincena(date) == IF DayOf(date) <= 15 THEN "Q1" ELSE "Q2"

\* the (date, quincena) pairs the form can hold at submit: handleDateChange
\* sets the quincena from the date; handleQuincenaTypeChange sets the
\* quincena and moves the date by 15 days, which leaves day 16 under Q1 and,
\* through toISOString east of UTC, day 15 under Q2 or a last day under Q1
FormQuincenaReachable(date, q, east) ==
    \/ q = GetQuincena(date)
    \/ q = "Q1" /\ DayOf(date) = 16
    \/ east /\ q = "Q2" /\ DayOf(date) = 15
    \/ east /\ q = "Q1" /\ DayOf(date) = DaysInMonth(YearOf(date), MonthOf(date))

RECURSIVE SignedSum(_)
\* reduce((acc, tx) => tx.type === 'INCOME' ? acc + tx.amount : acc - tx.amount, 0)
SignedSum(txs) ==
    IF txs = {} THEN 0
    ELSE LET t == CHOOSE x \in txs : TRUE
         IN  (IF t.type = "INCOME" THEN t.amount ELSE 0 - t.amount) + SignedSum(txs \ {t})

\* the balance the handlers compute for one account from a transaction list
AccountBalance(txs, accountId) == SignedSum({t \in txs : t.accountId = accountId})

\* setAccounts(prev => prev.map(a => a.id === accountId ? {...a, balance} : a))
SetBalance(accs, accountId, balance) ==
    [a \in DOMAIN accs |-> IF a = accountId THEN balance ELSE accs[a]]

\* filterTransactions(transactions, month, year, ...): the displayed month
InDisplayedMonth(t, month, year) ==
    YearOf(t.date) = year /\ MonthOf(t.date) = month + 1

\* mutant: the first half of the month ends on day 16
InPeriod_Day16First(t, period) ==
    CASE period = "Q1" -> DayOf(t.date) <= 16
      [] period = "Q2" -> DayOf(t.date) > 16
      [] OTHER -> TRUE

\* filterTransactions(..., period): the half of the month, when one is asked for
InPeriod(t, period) ==
    CASE period = "Q1" -> GetQuincena(t.date) = "Q1"
      [] period = "Q2" -> GetQuincena(t.date) = "Q2"
      [] OTHER -> TRUE

\* filterTransactions(transactions, month, year, period)
FilterTransactions(txs, month, year, period) ==
    {t \in txs : InDisplayedMonth(t, month, year) /\ InPeriod(t, period)}

----------------------------------------------------------------------------
(* The expansion effect: useEffect on [month, year, rules, exceptions] *)

\* mutant: the effect never runs the expansion
ExpansionEffect_Never(rules, txs, month, year, exceptions, firstId) == {}

\* mutant: the effect does not pass the exceptions to the expansion
ExpansionEffect_NoExceptions(rules, txs, month, year, exceptions, firstId) ==
    IF rules # {}
    THEN GenerateMissingRecurringTransactions(rules, txs, month, year, {}, firstId)
    ELSE {}

ExpansionEffect(rules, txs, month, year, exceptions, firstId) ==
    IF rules # {}
    THEN GenerateMissingRecurringTransactions(rules, txs, month, year, exceptions, firstId)
    ELSE {}

\* mutant: the generated transactions are not appended to the store
MergeGenerated_Dropped(prev, gen) == prev

\* setTransactions(prev => [...prev, ...generated])
MergeGenerated(prev, gen) == prev \cup gen

----------------------------------------------------------------------------
(* Remote persistence *)

\* what Supabase may answer to the calls of the next operation: failed or not
RemoteOutcomes == IF opCount < MaxEarlyOps THEN BOOLEAN ELSE {FALSE}

\* mutant: a remote error undoes the in-memory change
OnRemoteError_RolledBack(before, optimistic) == before

\* if (error) console.error(...), alert(...): the in-memory change stays
OnRemoteError(before, optimistic) == optimistic

\* a piece of state after the Supabase calls of a handler, which run after
\* the state setters and answer with {error} when they fail
AfterSync(before, optimistic, failed) ==
    IF failed THEN OnRemoteError(before, optimistic) ELSE optimistic

----------------------------------------------------------------------------
(* TransactionForm.handleSubmit *)

\* mutant: the form is submitted without validation
FormComplete_Unchecked(values) == TRUE

\* if (!amount || !categoryId || !accountId) return;
FormComplete(values) ==
    values.amount # "" /\ values.categoryId # "" /\ values.accountId # ""

\* the transaction the form hands to onSave
FormTransaction(initialData, values, date, isRecurring) ==
    [id |-> initialData.id, amount |-> ParseFloat(values.amount), type |-> values.type,
     date |-> date, categoryId |-> values.categoryId, accountId |-> values.accountId,
     isRecurring |-> isRecurring, recurrenceRuleId |-> initialData.recurrenceRuleId]

\* the recurrence options the form hands to onSave
FormOptions(initialData, isRecurring, frequency, quincenaType, updateFuture) ==
    [createRule |-> isRecurring /\ initialData = NoTx,
     frequency |-> frequency,
     quincenaN |-> IF frequency = "BIWEEKLY" THEN quincenaType ELSE "NONE",
     updateFuture |-> updateFuture]

----------------------------------------------------------------------------
(* handleSaveTransaction *)

\* the rule created for a transaction
NewRule(ruleId, t, options) ==
    [id |-> ruleId, frequency |-> options.frequency, quincenaN |-> options.quincenaN,
     startDate |-> t.date, endDate |-> NoDate, amount |-> t.amount, type |-> t.type,
     categoryId |-> t.categoryId, accountId |-> t.accountId,
     baseDateDay |-> DayOf(t.date)]

\* mutant: the old rule is left open
EndDatedRule_Open(rule, t, east) == rule

\* the old rule, closed at the day before the edited date
EndDatedRule(rule, t, east) ==
    [rule EXCEPT !.endDate = ToISODate(PrevDay(t.date), east)]

\* item.id === editingTransaction.id ? replacement : item
ReplaceById(txs, id, replacement) ==
    {IF item.id = id THEN replacement ELSE item : item \in txs}

\* mutant: the detached transaction is still marked recurring
DetachedTx_StillRecurring(t, id) ==
    [t EXCEPT !.id = id, !.recurrenceRuleId = NoRule]

\* mutant: the detached transaction keeps the link to its rule
DetachedTx_Linked(t, id) ==
    [t EXCEPT !.id = id, !.isRecurring = FALSE]

\* {...t, id: generateId(), isRecurring: false, recurrenceRuleId: undefined}
DetachedTx(t, id) ==
    [t EXCEPT !.id = id, !.isRecurring = FALSE, !.recurrenceRuleId = NoRule]

\* the synchronous part of handleSaveTransaction: the new rule and transaction
\* lists, the transactions to sync and the number of ids drawn
\* mutant: the edited fields are stored although the rule is missing
UpdateFutureWithoutRule_Stored(txs, rules, editing, t) ==
    [rules |-> rules, txs |-> ReplaceById(txs, editing.id, [t EXCEPT !.id = editing.id]),
     sync |-> {[t EXCEPT !.id = editing.id]}, ids |-> 0, branch |-> "updateFutureNoRule"]

\* oldRuleIndex < 0: the branch does nothing, newRules and newTransactions
\* are the copies made at the start
UpdateFutureWithoutRule(txs, rules, editing, t) ==
    [rules |-> rules, txs |-> txs, sync |-> {}, ids |-> 0,
     branch |-> "updateFutureNoRule"]

SaveResult(txs, rules, editing, t, options, nid, east) ==
    IF options.createRule
    THEN LET newRule == NewRule(nid + 1, t, options)
             txId == IF editing # NoTx THEN editing.id ELSE nid + 2
             txWithRule == [t EXCEPT !.id = txId, !.isRecurring = TRUE,
                                     !.recurrenceRuleId = nid + 1]
         IN  [rules |-> rules \cup {newRule},
              txs |-> IF editing # NoTx THEN ReplaceById(txs, editing.id, txWithRule)
                      ELSE txs \cup {txWithRule},
              sync |-> {txWithRule},
              ids |-> IF editing # NoTx THEN 1 ELSE 2,
              branch |-> "createRule"]
    ELSE IF editing # NoTx
    THEN IF options.updateFuture /\ editing.recurrenceRuleId # NoRule
         THEN IF \E r \in rules : r.id = editing.recurrenceRuleId
              THEN LET oldRule == CHOOSE r \in rules : r.id = editing.recurrenceRuleId
                       newRule == NewRule(nid + 1, t, options)
                       updatedTx == [t EXCEPT !.id = editing.id, !.isRecurring = TRUE,
                                              !.recurrenceRuleId = nid + 1]
                   IN  [rules |-> (rules \ {oldRule})
                                    \cup {EndDatedRule(oldRule, t, east), newRule},
                        txs |-> ReplaceById(txs, editing.id, updatedTx),
                        sync |-> {updatedTx},
                        ids |-> 1,
                        branch |-> "updateFuture"]
              ELSE UpdateFutureWithoutRule(txs, rules, editing, t)
         ELSE IF editing.isRecurring
              THEN LET detachedTx == DetachedTx(t, nid + 1)
                   IN  [rules |-> rules, txs |-> txs \cup {detachedTx},
                        sync |-> {detachedTx}, ids |-> 1, branch |-> "detach"]
              ELSE LET updatedTx == [t EXCEPT !.id = editing.id]
                   IN  [rules |-> rules, txs |-> ReplaceById(txs, editing.id, updatedTx),
                        sync |-> {updatedTx}, ids |-> 0, branch |-> "edit"]
    ELSE LET newTx == [t EXCEPT !.id = nid + 1]
         IN  [rules |-> rules, txs |-> txs \cup {newTx}, sync |-> {newTx}, ids |-> 1,
              branch |-> "create"]

\* UPDATE ACCOUNT BALANCE: the account of the first synced transaction is
\* recomputed from newTransactions
SaveBalances(accs, res) ==
    IF res.sync # {}
    THEN LET accountId == (CHOOSE s \in res.sync : TRUE).accountId
         IN  IF accountId \in DOMAIN accs
             THEN SetBalance(accs, accountId, AccountBalance(res.txs, accountId))
             ELSE accs
    ELSE accs

\* handleSaveTransaction, followed by the expansion effect that the new
\* rules array triggers; the result of the save and the output of the
\* effect are each computed once
HandleSaveTransaction(editing, values, date, isRecurring, frequency, quincenaType, updateFuture) ==
    LET t == FormTransaction(editing, values, date, isRecurring)
        options == FormOptions(editing, isRecurring, frequency, quincenaType, updateFuture)
    IN  /\ opCount < MaxOps
        /\ \E res \in {SaveResult(transactions, recurrenceRules, editing, t, options,
                                   nextId, utcOffsetPositive)} :
           \E gen \in {ExpansionEffect(res.rules, res.txs, dateFilter.month,
                                       dateFilter.year, recurrenceExceptions,
                                       nextId + res.ids)} :
              /\ nextId + res.ids + Cardinality(gen) <= MaxId
              /\ \E failed \in RemoteOutcomes :
                   /\ remoteError' = failed
                   /\ recurrenceRules' = AfterSync(recurrenceRules, res.rules, failed)
                   /\ transactions' = AfterSync(transactions, MergeGenerated(res.txs, gen), failed)
                   /\ accounts' = AfterSync(accounts, SaveBalances(accounts, res), failed)
              /\ generated' = gen
              /\ nextId' = nextId + res.ids + Cardinality(gen)
              /\ opCount' = opCount + 1
              /\ lastOp' = [op |-> res.branch, target |-> editing,
                            saved |-> IF res.sync = {} THEN NoTx ELSE CHOOSE s \in res.sync : TRUE,
                            form |-> options, input |-> t,
                            category |-> NoCategory]
              /\ UNCHANGED <<confirmModal, recurrenceExceptions, categories, dateFilter, utcOffsetPositive,
                             deletedSeries>>

\* the form is submitted: handleSubmit returns early when a field is missing
\* and hands the transaction to onSave otherwise
HandleSubmit(initialData, values, date, isRecurring, frequency, quincenaType, updateFuture) ==
    IF FormComplete(values)
    THEN HandleSaveTransaction(initialData, values, date, isRecurring, frequency,
                               quincenaType, updateFuture)
    ELSE /\ opCount < MaxEarlyOps
         /\ opCount' = opCount + 1
         /\ generated' = {}
         /\ remoteError' = FALSE
         /\ lastOp' = [op |-> "rejected", target |-> initialData, saved |-> NoTx,
                       form |-> NoOptions,
                       input |-> FormTransaction(initialData, values, date, isRecurring),
                       category |-> NoCategory]
         /\ UNCHANGED <<confirmModal, transactions, recurrenceRules, recurrenceExceptions, accounts,
                        categories, dateFilter, nextId, utcOffsetPositive, deletedSeries>>

----------------------------------------------------------------------------
(* performDeleteInstance *)

\* mutant: the deleted slot is not recorded as an exception
DeleteInstanceExceptions_NotRecorded(exceptions, tx) == exceptions

\* setRecurrenceExceptions(prev => prev.some(...) ? prev : [...prev, {ruleId, date}])
DeleteInstanceExceptions(exceptions, tx) ==
    exceptions \cup {[ruleId |-> tx.recurrenceRuleId, date |-> tx.date]}

\* transactions.filter(t => t.id !== tx.id)
DeleteInstanceTransactions(txs, tx) == {t \in txs : t.id # tx.id}

\* the effect runs again only when the exceptions array is a new one
PerformDeleteInstance(tx) ==
    LET newExceptions == DeleteInstanceExceptions(recurrenceExceptions, tx)
        updated == DeleteInstanceTransactions(transactions, tx)
    IN  /\ opCount < MaxOps
        /\ tx.recurrenceRuleId # NoRule
        /\ \E gen \in {IF newExceptions # recurrenceExceptions
                        THEN ExpansionEffect(recurrenceRules, updated, dateFilter.month,
                                             dateFilter.year, newExceptions, nextId)
                        ELSE {}} :
              /\ nextId + Cardinality(gen) <= MaxId
              /\ \E failed \in RemoteOutcomes :
                   /\ remoteError' = failed
                   /\ recurrenceExceptions' = AfterSync(recurrenceExceptions, newExceptions, failed)
                   /\ transactions' = AfterSync(transactions, MergeGenerated(updated, gen), failed)
                   /\ accounts' = AfterSync(accounts,
                                      IF tx.accountId \in DOMAIN accounts
                                      THEN SetBalance(accounts, tx.accountId,
                                                      AccountBalance(updated, tx.accountId))
                                      ELSE accounts,
                                      failed)
              /\ generated' = gen
              /\ nextId' = nextId + Cardinality(gen)
              /\ opCount' = opCount + 1
              /\ lastOp' = [op |-> "deleteInstance", target |-> tx, saved |-> NoTx, form |-> NoOptions,
                            input |-> NoTx, category |-> NoCategory]
              /\ UNCHANGED <<confirmModal, recurrenceRules, categories, dateFilter, utcOffsetPositive,
                             deletedSeries>>

----------------------------------------------------------------------------
(* performDeleteSeries *)

\* mutant: the rule of the deleted series is kept
DeleteSeriesRules_Kept(rules, tx) == rules

\* prev.filter(r => r.id !== tx.recurrenceRuleId)
DeleteSeriesRules(rules, tx) == {r \in rules : r.id # tx.recurrenceRuleId}

\* prev.filter(e => e.ruleId !== tx.recurrenceRuleId)
DeleteSeriesExceptions(exceptions, tx) ==
    {e \in exceptions : e.ruleId # tx.recurrenceRuleId}

\* transactions.filter(t => t.recurrenceRuleId !== tx.recurrenceRuleId)
DeleteSeriesTransactions(txs, tx) ==
    {t \in txs : t.recurrenceRuleId # tx.recurrenceRuleId}

PerformDeleteSeries(tx) ==
    LET newRules == DeleteSeriesRules(recurrenceRules, tx)
        newExceptions == DeleteSeriesExceptions(recurrenceExceptions, tx)
        updated == DeleteSeriesTransactions(transactions, tx)
    IN  /\ opCount < MaxOps
        /\ tx.recurrenceRuleId # NoRule
        /\ \E gen \in {ExpansionEffect(newRules, updated, dateFilter.month,
                                       dateFilter.year, newExceptions, nextId)} :
              /\ nextId + Cardinality(gen) <= MaxId
              /\ \E failed \in RemoteOutcomes :
                   /\ remoteError' = failed
                   /\ recurrenceRules' = AfterSync(recurrenceRules, newRules, failed)
                   /\ recurrenceExceptions' = AfterSync(recurrenceExceptions, newExceptions, failed)
                   /\ transactions' = AfterSync(transactions, MergeGenerated(updated, gen), failed)
                   /\ accounts' = AfterSync(accounts,
                                      IF tx.accountId \in DOMAIN accounts
                                      THEN SetBalance(accounts, tx.accountId,
                                                      AccountBalance(updated, tx.accountId))
                                      ELSE accounts,
                                      failed)
              /\ generated' = gen
              /\ nextId' = nextId + Cardinality(gen)
              /\ deletedSeries' = deletedSeries \cup {tx.recurrenceRuleId}
              /\ opCount' = opCount + 1
              /\ lastOp' = [op |-> "deleteSeries", target |-> tx, saved |-> NoTx, form |-> NoOptions,
                            input |-> NoTx, category |-> NoCategory]
              /\ UNCHANGED <<confirmModal, categories, dateFilter, utcOffsetPositive>>

----------------------------------------------------------------------------
(* handleDeleteTransaction: for a transaction that is not linked to a rule    *)
(* the confirmation modal is opened; its onConfirm closure holds the          *)
(* transactions array of the render in which the deletion was requested.      *)
(* The modal is an overlay without focus handling: it stops the pointer, not  *)
(* the keyboard, so other handlers can still run while it is open.            *)

\* an operation other than the confirmation while the modal is open
BehindModal == confirmModal.isOpen => opCount < MaxEarlyOps

HandleDeleteTransaction(tx) ==
    /\ opCount < MaxOps
    /\ ~confirmModal.isOpen
    /\ ~(tx.isRecurring /\ tx.recurrenceRuleId # NoRule)
    /\ confirmModal' = [isOpen |-> TRUE, tx |-> tx, transactions |-> transactions]
    /\ generated' = {}
    /\ remoteError' = FALSE
    /\ lastOp' = [op |-> "deleteRequest", target |-> tx, saved |-> NoTx, form |-> NoOptions,
                  input |-> NoTx, category |-> NoCategory]
    /\ UNCHANGED <<transactions, recurrenceRules, recurrenceExceptions, accounts,
                   categories, dateFilter, nextId, utcOffsetPositive, opCount,
                   deletedSeries>>

\* transactions.filter(t => t.id !== id), on the captured array
ConfirmedTransactions(captured, tx) == {t \in captured : t.id # tx.id}

\* onConfirm(), then onClose()
OnConfirm ==
    LET tx == confirmModal.tx
    IN  /\ opCount < MaxOps
        /\ confirmModal.isOpen
        /\ \E updated \in {ConfirmedTransactions(confirmModal.transactions, tx)} :
           \E failed \in RemoteOutcomes :
             /\ remoteError' = failed
             /\ transactions' = AfterSync(transactions, updated, failed)
             /\ accounts' = AfterSync(accounts,
                                IF tx.accountId \in DOMAIN accounts
                                THEN SetBalance(accounts, tx.accountId,
                                                AccountBalance(updated, tx.accountId))
                                ELSE accounts,
                                failed)
        /\ confirmModal' = NoModal
        /\ generated' = {}
        /\ opCount' = opCount + 1
        /\ lastOp' = [op |-> "deleteTransaction", target |-> tx, saved |-> NoTx, form |-> NoOptions,
                      input |-> NoTx, category |-> NoCategory]
        /\ UNCHANGED <<recurrenceRules, recurrenceExceptions, categories, dateFilter,
                       nextId, utcOffsetPositive, deletedSeries>>

----------------------------------------------------------------------------
(* handleDeleteCategory, on confirmation *)

\* mutant: every category goes with the deleted one
DeleteCategoryCategories_All(cats, id) == {}

\* setCategories(prev => prev.filter(c => c.id !== id))
DeleteCategoryCategories(cats, id) == {c \in cats : c # id}

\* the effect does not depend on the categories: no expansion follows
HandleDeleteCategory(id) ==
    /\ opCount < MaxEarlyOps
    /\ \E failed \in RemoteOutcomes :
         /\ remoteError' = failed
         /\ categories' = AfterSync(categories, DeleteCategoryCategories(categories, id),
                                    failed)
    /\ generated' = {}
    /\ opCount' = opCount + 1
    /\ lastOp' = [op |-> "deleteCategory", target |-> NoTx, saved |-> NoTx,
                  form |-> NoOptions, input |-> NoTx, category |-> id]
    /\ UNCHANGED <<confirmModal, transactions, recurrenceRules, recurrenceExceptions, accounts,
                   dateFilter, nextId, utcOffsetPositive, deletedSeries>>

----------------------------------------------------------------------------
(* changeMonth, followed by the expansion effect for the new month *)

NextMonthYear(month, year, delta) ==
    IF month + delta > 11 THEN [month |-> 0, year |-> year + 1]
    ELSE IF month + delta < 0 THEN [month |-> 11, year |-> year - 1]
    ELSE [month |-> month + delta, year |-> year]

ChangeMonth(delta) ==
    LET new == NextMonthYear(dateFilter.month, dateFilter.year, delta)
    IN  /\ opCount < MaxOps
        /\ MonthsFromStart(new.month, new.year) \in 0..MaxMonthsAhead
        /\ \E gen \in {ExpansionEffect(recurrenceRules, transactions, new.month,
                                       new.year, recurrenceExceptions, nextId)} :
              /\ nextId + Cardinality(gen) <= MaxId
              /\ dateFilter' = [dateFilter EXCEPT !.month = new.month, !.year = new.year]
              /\ transactions' = MergeGenerated(transactions, gen)
              /\ generated' = gen
              /\ remoteError' = FALSE
              /\ nextId' = nextId + Cardinality(gen)
              /\ opCount' = opCount + 1
              /\ lastOp' = [op |-> "changeMonth", target |-> NoTx, saved |-> NoTx, form |-> NoOptions,
                            input |-> NoTx, category |-> NoCategory]
              /\ UNCHANGED <<confirmModal, recurrenceRules, recurrenceExceptions, accounts, categories,
                             utcOffsetPositive, deletedSeries>>

----------------------------------------------------------------------------
(* The period tabs: setDateFilter(prev => ({...prev, period})); the effect    *)
(* depends on the month and the year only, so no expansion follows            *)

ChangePeriod(period) ==
    /\ opCount < MaxEarlyOps
    /\ dateFilter' = [dateFilter EXCEPT !.period = period]
    /\ generated' = {}
    /\ remoteError' = FALSE
    /\ opCount' = opCount + 1
    /\ lastOp' = [op |-> "changePeriod", target |-> NoTx, saved |-> NoTx,
                  form |-> NoOptions, input |-> NoTx, category |-> NoCategory]
    /\ UNCHANGED <<confirmModal, transactions, recurrenceRules, recurrenceExceptions, accounts,
                   categories, nextId, utcOffsetPositive, deletedSeries>>

----------------------------------------------------------------------------
(* initData: the data is loaded again, after a reload of the page (remount:   *)
(* every useState starts from its initial value) or after a change of the     *)
(* session. The stores hold what the handlers wrote. The exceptions are       *)
(* written to localStorage and never read back; the date filter is.           *)

\* the exceptions before the load: useState([]) after a remount
InitialExceptions(exceptions, remount) == IF remount THEN {} ELSE exceptions

\* the rules before the load: useState([]) after a remount
InitialRules(rules, remount) == IF remount THEN {} ELSE rules

\* SET FINAL STATES when the remote store answered; the catch branch sets
\* the transactions, categories and accounts from localStorage and leaves
\* the rules as they are
LoadedRules(rules, remount, remoteOk) ==
    IF remoteOk THEN rules ELSE InitialRules(rules, remount)

InitData(remount, remoteOk) ==
    /\ opCount < MaxOps
    /\ (remount /\ remoteOk) \/ opCount < MaxEarlyOps
    /\ \E rules \in {LoadedRules(recurrenceRules, remount, remoteOk)} :
       \E exceptions \in {InitialExceptions(recurrenceExceptions, remount)} :
       \E gen \in {ExpansionEffect(rules, transactions, dateFilter.month,
                                   dateFilter.year, exceptions, nextId)} :
          /\ nextId + Cardinality(gen) <= MaxId
          /\ recurrenceRules' = rules
          /\ recurrenceExceptions' = exceptions
          /\ transactions' = MergeGenerated(transactions, gen)
          /\ generated' = gen
          /\ nextId' = nextId + Cardinality(gen)
          /\ remoteError' = ~remoteOk
          /\ opCount' = opCount + 1
          /\ lastOp' = [op |-> IF remoteOk THEN "initData" ELSE "initDataFallback",
                        target |-> NoTx, saved |-> NoTx, form |-> NoOptions,
                        input |-> NoTx, category |-> NoCategory]
          /\ confirmModal' = IF remount THEN NoModal ELSE confirmModal
          /\ UNCHANGED <<accounts, categories, dateFilter, utcOffsetPositive,
                         deletedSeries>>

----------------------------------------------------------------------------
(* The application *)

\* the state once the data of a user with the default accounts, two
\* categories and no transactions or rules has been loaded
Init ==
    /\ transactions = {}
    /\ recurrenceRules = {}
    /\ recurrenceExceptions = {}
    /\ accounts = [a \in AccountIds |-> 0]
    /\ categories = CategoryIds
    /\ dateFilter = InitialDateFilter
    /\ nextId = 0
    /\ utcOffsetPositive \in BOOLEAN
    /\ remoteError = FALSE
    /\ generated = {}
    /\ opCount = 0
    /\ confirmModal = NoModal
    /\ deletedSeries = {}
    /\ lastOp = [op |-> "init", target |-> NoTx, saved |-> NoTx, form |-> NoOptions,
                      input |-> NoTx, category |-> NoCategory]

\* the transactions listed for the displayed month, which the user can edit
\* or delete
Displayed ==
    FilterTransactions(transactions, dateFilter.month, dateFilter.year, dateFilter.period)

\* a new transaction, recurring or not
SaveNew ==
    /\ opCount < MaxOps
    /\ BehindModal
    /\ \E values \in FormValues, date \in FormDates, isRecurring \in BOOLEAN,
          frequency \in {"MONTHLY", "BIWEEKLY"}, q \in {"Q1", "Q2"} :
           /\ isRecurring \/ (frequency = "MONTHLY" /\ q = "Q1")
           /\ frequency = "BIWEEKLY" \/ q = "Q1"
           /\ frequency = "BIWEEKLY" => FormQuincenaReachable(date, q, utcOffsetPositive)
           /\ values.categoryId \in categories
           /\ HandleSubmit(NoTx, values, date, isRecurring, frequency, q, FALSE)

\* an edit of a listed transaction that is not recurring: the toggle is shown
SaveEditPlain ==
    /\ opCount < MaxOps
    /\ BehindModal
    /\ \E editing \in Displayed, values \in FormValues, date \in FormDates,
          isRecurring \in BOOLEAN :
           /\ ~editing.isRecurring
           /\ values.categoryId \in categories
           /\ HandleSubmit(editing, values, date, isRecurring, "MONTHLY", "Q1", FALSE)

\* an edit of a listed recurring transaction: this instance only, or the
\* future of its rule
SaveEditRecurring ==
    /\ opCount < MaxOps
    /\ BehindModal
    /\ \E editing \in Displayed, values \in FormValues, date \in UpdateFutureDates,
          updateFuture \in BOOLEAN, frequency \in {"MONTHLY", "BIWEEKLY"},
          q \in {"Q1", "Q2"} :
           /\ editing.isRecurring
           /\ updateFuture \/ date \in FormDates
           /\ updateFuture => editing.recurrenceRuleId # NoRule
           /\ updateFuture \/ (frequency = "MONTHLY" /\ q = "Q1")
           /\ frequency = "BIWEEKLY" \/ q = "Q1"
           /\ frequency = "BIWEEKLY" => FormQuincenaReachable(date, q, utcOffsetPositive)
           /\ values.categoryId \in categories
           /\ HandleSubmit(editing, values, date, TRUE, frequency, q, updateFuture)

\* a form, new or of a listed transaction, submitted with a field missing
\* and the date left as the form opened it
SubmitIncomplete ==
    /\ opCount < MaxEarlyOps
    /\ BehindModal
    /\ \E initialData \in {NoTx} \cup Displayed, values \in IncompleteFormValues :
           /\ values.categoryId \in categories \cup {""}
           /\ HandleSubmit(initialData, values,
                           IF initialData = NoTx THEN Today ELSE initialData.date,
                           initialData.isRecurring, "MONTHLY", "Q1", FALSE)

DeleteInstance ==
    /\ opCount < MaxOps
    /\ BehindModal
    /\ \E tx \in Displayed : tx.isRecurring /\ PerformDeleteInstance(tx)

DeleteSeries ==
    /\ opCount < MaxOps
    /\ BehindModal
    /\ \E tx \in Displayed : tx.isRecurring /\ PerformDeleteSeries(tx)

\* the deletion of a listed transaction is requested
DeleteTransaction ==
    /\ opCount < MaxOps
    /\ \E tx \in Displayed : HandleDeleteTransaction(tx)

\* the confirm button of the modal
ConfirmDelete == OnConfirm

DeleteCategory ==
    /\ opCount < MaxEarlyOps
    /\ BehindModal
    /\ \E id \in categories : HandleDeleteCategory(id)

Navigate ==
    /\ opCount < MaxOps
    /\ BehindModal
    /\ \E delta \in {-1, 1} : ChangeMonth(delta)

\* the page is reloaded or the session changes
Reload ==
    /\ opCount < MaxOps
    /\ BehindModal
    /\ \E remount \in BOOLEAN, remoteOk \in BOOLEAN : InitData(remount, remoteOk)

\* a period tab other than the selected one
SelectPeriod ==
    /\ opCount < MaxEarlyOps
    /\ BehindModal
    /\ \E period \in {"Q1", "Q2", "ALL"} :
           period # dateFilter.period /\ ChangePeriod(period)

Next ==
    \/ SaveNew
    \/ SaveEditPlain
    \/ SaveEditRecurring
    \/ SubmitIncomplete
    \/ DeleteInstance
    \/ DeleteSeries
    \/ DeleteTransaction
    \/ ConfirmDelete
    \/ DeleteCategory
    \/ Navigate
    \/ SelectPeriod
    \/ Reload

Spec == Init /\ [][Next]_vars

----------------------------------------------------------------------------
(* The expansion alone: expand applied, and applied again, to stores drawn   *)
(* from bounded sets of rules, transactions, exceptions and target months    *)

\* a rule under test: every anchor day, frequency and quincena, started
\* before or inside the target months, open or closed
ExpandRules ==
    {[id |-> 1, frequency |-> f, quincenaN |-> q, startDate |-> s, endDate |-> e,
      amount |-> 100, type |-> "EXPENSE", categoryId |-> "c1", accountId |-> "a1",
      baseDateDay |-> b] :
        f \in {"MONTHLY"}, q \in {"NONE"}, s \in {20230101, 20240210},
        e \in {NoDate, 20240220}, b \in 1..31}
    \cup
    {[id |-> 1, frequency |-> f, quincenaN |-> q, startDate |-> s, endDate |-> e,
      amount |-> 100, type |-> "EXPENSE", categoryId |-> "c1", accountId |-> "a1",
      baseDateDay |-> b] :
        f \in {"BIWEEKLY"}, q \in {"Q1", "Q2"}, s \in {20230101, 20240210},
        e \in {NoDate, 20240220}, b \in 1..31}

\* a second rule, present in some stores
OtherRule ==
    [id |-> 2, frequency |-> "MONTHLY", quincenaN |-> "NONE", startDate |-> 20230615,
     endDate |-> NoDate, amount |-> 500, type |-> "INCOME", categoryId |-> "c2",
     accountId |-> "a2", baseDateDay |-> 31]

\* stored transactions at the slot of the rule under test: its own instance,
\* or a transaction of the other rule on the same day
ExpandStores(rule, month, year) ==
    LET cand == CandidateDate(rule, year, month + 1)
    IN  {{},
         {Materialize(rule, cand, 3)},
         {Materialize(OtherRule, cand, 4)}}

\* exception sets: none, the slot of the rule under test, both rules' slots
ExpandExceptions(rule, month, year) ==
    LET cand == CandidateDate(rule, year, month + 1)
        other == CandidateDate(OtherRule, year, month + 1)
    IN  {{},
         {[ruleId |-> rule.id, date |-> cand]},
         {[ruleId |-> rule.id, date |-> cand], [ruleId |-> OtherRule.id, date |-> other]}}

InitExpand ==
    \E rule \in ExpandRules, others \in {{}, {OtherRule}},
       month \in 0..11, year \in {2023, 2024} :
        /\ recurrenceRules = {rule} \cup others
        /\ dateFilter = [month |-> month, year |-> year, period |-> "ALL"]
        /\ transactions \in ExpandStores(rule, month, year)
        /\ recurrenceExceptions \in ExpandExceptions(rule, month, year)
        /\ accounts = [a \in AccountIds |-> 0]
        /\ categories = CategoryIds
        /\ nextId = 4
        /\ utcOffsetPositive = FALSE
        /\ remoteError = FALSE
        /\ generated = {}
        /\ opCount = 0
        /\ confirmModal = NoModal
        /\ deletedSeries = {}
        /\ lastOp = [op |-> "init", target |-> NoTx, saved |-> NoTx, form |-> NoOptions,
                      input |-> NoTx, category |-> NoCategory]

\* one run of the expansion for the target month, its output folded into the
\* stored transactions
ExpandStep ==
    LET gen == ExpansionEffect(recurrenceRules, transactions, dateFilter.month,
                               dateFilter.year, recurrenceExceptions, nextId)
    IN  /\ opCount < MaxExpandCalls
        /\ generated' = gen
        /\ transactions' = MergeGenerated(transactions, gen)
        /\ nextId' = nextId + Cardinality(gen)
        /\ opCount' = opCount + 1
        /\ lastOp' = [op |-> "expand", target |-> NoTx, saved |-> NoTx, form |-> NoOptions,
                      input |-> NoTx, category |-> NoCategory]
        /\ UNCHANGED <<confirmModal, recurrenceRules, recurrenceExceptions, accounts, categories,
                       dateFilter, utcOffsetPositive, remoteError, deletedSeries>>

NextExpand == ExpandStep

SpecExpand == InitExpand /\ [][NextExpand]_vars

----------------------------------------------------------------------------
(* The filter on its own: a store of plain transactions around the middle of  *)
(* February 2024 and a stored date filter, then month and period navigation   *)

FilterDates == {20230216, 20240116, 20240201, 20240215, 20240216, 20240229}

\* a plain transaction of the given date; its id is the date
FilterSample(date) ==
    [id |-> date, amount |-> 100, type |-> "EXPENSE", date |-> date,
     categoryId |-> "c1", accountId |-> "a1", isRecurring |-> FALSE,
     recurrenceRuleId |-> NoRule]

\* the periods sanitizeDateFilter accepts from the stored filter
ValidPeriods == {"ALL", "Q1", "Q2", "MONTH"}

InitFilter ==
    \E month \in {0, 1}, period \in ValidPeriods :
        /\ transactions \in SUBSET {FilterSample(d) : d \in FilterDates}
        /\ dateFilter = [month |-> month, year |-> 2024, period |-> period]
        /\ recurrenceRules = {}
        /\ recurrenceExceptions = {}
        /\ accounts = [a \in AccountIds |->
                         AccountBalance(transactions, a)]
        /\ categories = CategoryIds
        /\ nextId = MaxId
        /\ utcOffsetPositive = FALSE
        /\ remoteError = FALSE
        /\ generated = {}
        /\ opCount = 0
        /\ confirmModal = NoModal
        /\ deletedSeries = {}
        /\ lastOp = [op |-> "init", target |-> NoTx, saved |-> NoTx, form |-> NoOptions,
                      input |-> NoTx, category |-> NoCategory]

NextFilter ==
    \/ Navigate
    \/ SelectPeriod

SpecFilter == InitFilter /\ [][NextFilter]_vars

----------------------------------------------------------------------------
(* Properties of the expansion (checked under SpecExpand) *)

\* C1 (idempotence): once the output of an expansion has been folded into the
\* stored transactions, expanding the same rules, month, year and exceptions
\* over the enlarged store returns nothing.
C1_Idempotence ==
    lastOp.op = "expand" =>
        GenerateMissingRecurringTransactions(recurrenceRules, transactions,
            dateFilter.month, dateFilter.year, recurrenceExceptions, nextId) = {}

\* a transaction was generated by the first call (the stores under test use
\* ids up to 4) and the second call ran
C1_Witness ==
    /\ lastOp.op = "expand"
    /\ opCount = 2
    /\ generated = {}
    /\ \E t \in transactions : t.id > 4

\* C2 (exception respect): no call of the expansion, first or repeated,
\* returns a transaction whose (recurrenceRuleId, date) is in the exception
\* set it was given, and no such generated transaction enters the store.
C2_ExceptionRespect ==
    /\ \A g \in generated :
         ~\E e \in recurrenceExceptions :
            e.ruleId = g.recurrenceRuleId /\ e.date = g.date
    /\ \A t \in transactions :
         t.id > 4 => ~\E e \in recurrenceExceptions :
            e.ruleId = t.recurrenceRuleId /\ e.date = t.date

\* the expansion ran twice on a rule whose only obstacle is the exception
C2_Witness ==
    /\ lastOp.op = "expand"
    /\ opCount = 2
    /\ \E r \in recurrenceRules :
         LET cand == CandidateDate(r, dateFilter.year, dateFilter.month + 1)
         IN  /\ r.startDate <= cand
             /\ (r.endDate = NoDate \/ cand <= r.endDate)
             /\ ~\E t \in transactions : t.recurrenceRuleId = r.id /\ t.date = cand
             /\ [ruleId |-> r.id, date |-> cand] \in recurrenceExceptions

\* C3 (bounds respect): every generated transaction is dated on or after its
\* rule's startDate and, when the rule has an endDate, on or before it.
C3_BoundsRespect ==
    \A g \in generated : \A r \in recurrenceRules :
        r.id = g.recurrenceRuleId =>
            /\ g.date >= r.startDate
            /\ (r.endDate # NoDate => g.date <= r.endDate)

\* a transaction generated in the month in which its rule both starts and ends
C3_Witness ==
    \E g \in generated : \E r \in recurrenceRules :
        /\ r.id = g.recurrenceRuleId
        /\ r.startDate = 20240210 /\ r.endDate = 20240220
        /\ g.date >= 20240210 /\ g.date <= 20240220

\* C4 (quincena containment): a transaction generated for a BIWEEKLY rule
\* falls on day <= 15 when the rule is Q1 and on day > 15 when it is Q2.
C4_QuincenaContainment ==
    \A g \in generated : \A r \in recurrenceRules :
        (r.id = g.recurrenceRuleId /\ r.frequency = "BIWEEKLY") =>
            /\ (r.quincenaN = "Q1" => DayOf(g.date) <= 15)
            /\ (r.quincenaN = "Q2" => DayOf(g.date) > 15)

\* a Q2 rule anchored on day 14 generated for February of a common year
C4_Witness ==
    \E g \in generated : \E r \in recurrenceRules :
        /\ r.id = g.recurrenceRuleId
        /\ r.frequency = "BIWEEKLY" /\ r.quincenaN = "Q2" /\ r.baseDateDay = 14
        /\ g.date = 20230228

\* the rule is due in the target month of the current state: it is active in
\* the month, its candidate lies within its bounds, no stored transaction
\* holds the slot and the slot is not an exception
RuleIsDue(r) ==
    LET y == dateFilter.year
        m == dateFilter.month + 1
        cand == CandidateDate(r, y, m)
    IN  /\ r.startDate <= MkDate(y, m, DaysInMonth(y, m))
        /\ (r.endDate = NoDate \/ r.endDate >= MkDate(y, m, 1))
        /\ r.startDate <= cand
        /\ (r.endDate = NoDate \/ cand <= r.endDate)
        /\ ~\E t \in transactions : t.recurrenceRuleId = r.id /\ t.date = cand
        /\ ~\E e \in recurrenceExceptions : e.ruleId = r.id /\ e.date = cand

\* C5 (per-rule completeness): a call of the expansion returns, for every
\* rule that is due, exactly one transaction, dated on the candidate, marked
\* recurring, linked to the rule and carrying its amount, type, category and
\* account; and none for a rule that is not due.
C5_PerRuleCompleteness ==
    [][lastOp'.op = "expand" =>
        \A r \in recurrenceRules :
            LET mine == {g \in generated' : g.recurrenceRuleId = r.id}
            IN  IF RuleIsDue(r)
                THEN /\ Cardinality(mine) = 1
                     /\ \A g \in mine :
                          /\ g.date = CandidateDate(r, dateFilter.year, dateFilter.month + 1)
                          /\ g.isRecurring
                          /\ g.amount = r.amount /\ g.type = r.type
                          /\ g.categoryId = r.categoryId /\ g.accountId = r.accountId
                     /\ Cardinality(generated') =
                          Cardinality({q \in recurrenceRules : RuleIsDue(q)})
                ELSE mine = {}]_vars

\* a call returned a transaction for one rule and none for the other
C5_Witness ==
    /\ lastOp.op = "expand"
    /\ Cardinality(recurrenceRules) = 2
    /\ Cardinality(generated) = 1

\* the length of a month as the calendar gives it
CalendarDays(y, m) ==
    CASE m \in {1, 3, 5, 7, 8, 10, 12} -> 31
      [] m \in {4, 6, 9, 11} -> 30
      [] m = 2 /\ y = 2024 -> 29
      [] m = 2 /\ y # 2024 -> 28

\* C6 (clamping): a transaction generated for a MONTHLY rule falls on
\* min(baseDateDay, days of the target month), February having 29 days
\* exactly in leap years.
C6_Clamping ==
    \A g \in generated : \A r \in recurrenceRules :
        (r.id = g.recurrenceRuleId /\ r.frequency = "MONTHLY") =>
            DayOf(g.date) =
                Min(r.baseDateDay, CalendarDays(YearOf(g.date), MonthOf(g.date)))

\* anchor day 31 generated on 29 February of a leap year
C6_Witness ==
    \E g \in generated : \E r \in recurrenceRules :
        /\ r.id = g.recurrenceRuleId /\ r.id = 1
        /\ r.frequency = "MONTHLY" /\ r.baseDateDay = 31
        /\ g.date = 20240229

----------------------------------------------------------------------------
(* Properties of the rule lifecycle (checked under Spec) *)

\* the rule with the given id is in the rule set
RuleExists(rules, id) == \E r \in rules : r.id = id

DayBefore(d) == PrevDay(d)

\* C9 (rule split on 'update future'): the save end-dates the existing rule at
\* the day before the edited date d and keeps its other fields, adds exactly
\* one rule starting at d, anchored on the day of d, with the revised amount,
\* type, category, account, frequency and quincena, and stores the edited
\* transaction under its own id, recurring and linked to the new rule.
C9_RuleSplit ==
    [][lastOp'.op = "updateFuture" =>
        LET old == CHOOSE r \in recurrenceRules : r.id = lastOp'.target.recurrenceRuleId
            saved == lastOp'.saved
            d == saved.date
            added == {r \in recurrenceRules' : ~RuleExists(recurrenceRules, r.id)}
        IN  /\ [old EXCEPT !.endDate = DayBefore(d)] \in recurrenceRules'
            /\ Cardinality(added) = 1
            /\ recurrenceRules' = (recurrenceRules \ {old})
                                    \cup {[old EXCEPT !.endDate = DayBefore(d)]} \cup added
            /\ \A new \in added :
                 /\ new.startDate = d
                 /\ new.baseDateDay = DayOf(d)
                 /\ new.amount = saved.amount /\ new.type = saved.type
                 /\ new.categoryId = saved.categoryId /\ new.accountId = saved.accountId
                 /\ new.frequency = lastOp'.form.frequency
                 /\ new.quincenaN = lastOp'.form.quincenaN
                 /\ saved.recurrenceRuleId = new.id
            /\ saved.id = lastOp'.target.id
            /\ saved.isRecurring
            /\ saved \in transactions'
            /\ Cardinality({t \in transactions' : t.id = saved.id}) = 1]_vars

\* target months around the displayed ones: December 2023 to April 2024
HorizonMonths ==
    {[month |-> 11, year |-> 2023], [month |-> 0, year |-> 2024],
     [month |-> 1, year |-> 2024], [month |-> 2, year |-> 2024],
     [month |-> 3, year |-> 2024]}

\* months on one scale: of a target month (0..11) and year, and of a date
MonthIndex(month, year) == year * 12 + month
DateMonthIndex(date) == YearOf(date) * 12 + (MonthOf(date) - 1)

\* what the expansion of target month M returns over the given store
ExpansionOf(rules, txs, exceptions, M) ==
    GenerateMissingRecurringTransactions(rules, txs, M.month, M.year, exceptions, nextId)

\* 'update future' leaves every transaction other than the edited one unchanged
SplitKeepsOthers ==
    [][lastOp'.op = "updateFuture" =>
        \A t \in transactions : t.id # lastOp'.target.id => t \in transactions']_vars

\* after a split at d, the expansion of a month after d yields an instance of
\* the new rule (generated, or stored already when that month is displayed)
\* and none of the old rule
SplitFutureUsesNewRule ==
    [](lastOp.op = "updateFuture" =>
        \A M \in HorizonMonths :
            MonthIndex(M.month, M.year) > DateMonthIndex(lastOp.saved.date) =>
                LET g == ExpansionOf(recurrenceRules, transactions, recurrenceExceptions, M)
                IN  /\ \A x \in g : x.recurrenceRuleId # lastOp.target.recurrenceRuleId
                    /\ \E x \in g \cup transactions :
                         /\ x.recurrenceRuleId = lastOp.saved.recurrenceRuleId
                         /\ DateMonthIndex(x.date) = MonthIndex(M.month, M.year))

\* after a split at d, re-expanding a month before d that was fully generated
\* adds nothing: neither the effect that follows the save nor a later visit
SplitPastUnaffected ==
    [][lastOp'.op = "updateFuture" =>
        \A M \in HorizonMonths :
            (/\ MonthIndex(M.month, M.year) < DateMonthIndex(lastOp'.saved.date)
             /\ ExpansionOf(recurrenceRules, transactions, recurrenceExceptions, M) = {})
            => /\ ExpansionOf(recurrenceRules', transactions', recurrenceExceptions', M) = {}
               /\ ((M.month = dateFilter.month /\ M.year = dateFilter.year)
                     => generated' = {})]_vars

\* C10 (split does not rewrite history): an 'update future' edit at date d
\* leaves every other transaction unchanged; afterwards the expansion of a
\* month after d yields an instance of the new rule and none of the old rule,
\* and the re-expansion of an already generated month before d adds nothing.
C10_SplitKeepsHistory ==
    /\ SplitKeepsOthers
    /\ SplitFutureUsesNewRule
    /\ SplitPastUnaffected

\* C11 (single-instance edit detaches): saving an edit of a transaction linked
\* to a rule without 'update future' adds exactly one transaction, which has
\* a fresh id, is not recurring, has no recurrenceRuleId and carries the
\* amount, type, date, category and account of the form; the rules and the
\* exceptions are left as they were.
C11_DetachEdit ==
    [][(lastOp'.op = "detach" /\ lastOp'.target.recurrenceRuleId # NoRule) =>
        LET added == transactions' \ transactions
            form == lastOp'.input
        IN  /\ transactions \subseteq transactions'
            /\ Cardinality(added) = 1
            /\ \A n \in added :
                 /\ ~\E t \in transactions : t.id = n.id
                 /\ n.id > nextId
                 /\ ~n.isRecurring
                 /\ n.recurrenceRuleId = NoRule
                 /\ n.amount = form.amount /\ n.type = form.type /\ n.date = form.date
                 /\ n.categoryId = form.categoryId /\ n.accountId = form.accountId
            /\ recurrenceRules' = recurrenceRules
            /\ recurrenceExceptions' = recurrenceExceptions]_vars

\* an instance of a rule was edited alone, with another amount and date
C11_Witness ==
    /\ lastOp.op = "detach"
    /\ lastOp.target.recurrenceRuleId # NoRule
    /\ lastOp.saved.amount # lastOp.target.amount
    /\ lastOp.saved.date # lastOp.target.date
    /\ lastOp.saved \in transactions

\* C12 (single-instance edit replaces the original): after a single-instance
\* edit of the instance of rule r dated d, the store holds no transaction
\* with recurrenceRuleId = r and date = d, and the expansion of no month
\* returns one.
C12_DetachReplaces ==
    (lastOp.op = "detach" /\ lastOp.target.recurrenceRuleId # NoRule) =>
        LET r == lastOp.target.recurrenceRuleId
            d == lastOp.target.date
        IN  /\ ~\E t \in transactions : t.recurrenceRuleId = r /\ t.date = d
            /\ \A M \in HorizonMonths :
                 ~\E g \in ExpansionOf(recurrenceRules, transactions,
                                       recurrenceExceptions, M) :
                    g.recurrenceRuleId = r /\ g.date = d

\* the operations that are saves
SaveOps == {"createRule", "updateFuture", "updateFutureNoRule", "detach", "edit", "create"}

\* C13 (create-as-recurring): saving a new transaction, or an existing
\* non-recurring transaction, with 'recurring' toggled on creates exactly one
\* rule, starting at the transaction's date and anchored on its day of the
\* month, and stores the transaction as recurring and linked to that rule.
C13_CreateAsRecurring ==
    [][(/\ lastOp'.op \in SaveOps
        /\ lastOp'.input.isRecurring
        /\ ~lastOp'.target.isRecurring) =>
        LET added == {r \in recurrenceRules' : ~RuleExists(recurrenceRules, r.id)}
            saved == lastOp'.saved
        IN  /\ Cardinality(added) = 1
            /\ recurrenceRules' = recurrenceRules \cup added
            /\ \A new \in added :
                 /\ new.startDate = lastOp'.input.date
                 /\ new.baseDateDay = DayOf(lastOp'.input.date)
                 /\ saved.recurrenceRuleId = new.id
            /\ saved.isRecurring
            /\ saved \in transactions']_vars

\* C14 (unlinked when not recurring): in every reachable state, every
\* transaction with isRecurring = false has no recurrenceRuleId.
C14_NonRecurringUnlinked ==
    \A t \in transactions : ~t.isRecurring => t.recurrenceRuleId = NoRule

\* the store holds an instance linked to a rule and, after a single-instance
\* edit of it, the detached transaction that is not recurring
C14_Witness ==
    /\ lastOp.op = "detach"
    /\ lastOp.target \in transactions
    /\ lastOp.target.isRecurring /\ lastOp.target.recurrenceRuleId # NoRule
    /\ \E t \in transactions : ~t.isRecurring /\ t.id = lastOp.saved.id

\* the balance derived from the store: INCOME amounts minus EXPENSE amounts
\* over the transactions that reference the account
DerivedBalance(a) == SignedSum({t \in transactions : t.accountId = a})

\* C15 (derived account balance): after every completed change to the
\* transaction store (save, edit, the three deletes, the merge of generated
\* transactions), each account's balance equals its derived balance.
C15_DerivedBalance ==
    \A a \in AccountIds : accounts[a] = DerivedBalance(a)

\* C16 (account change): when an edit moves a transaction from account A to
\* another account B, the balances of A and of B after the save are the ones
\* derived from the transaction set.
C16_AccountMove ==
    [][(/\ lastOp'.op \in {"edit", "updateFuture"}
        /\ lastOp'.saved.accountId # lastOp'.target.accountId) =>
        LET A == lastOp'.target.accountId
            B == lastOp'.saved.accountId
        IN  /\ accounts'[A] = AccountBalance(transactions', A)
            /\ accounts'[B] = AccountBalance(transactions', B)]_vars

Incomplete(t) == t.amount = NaN \/ t.categoryId = "" \/ t.accountId = ""

\* C18 (validation at the input boundary): a submission with a missing
\* amount, category or account is rejected and leaves the transactions, the
\* rules and the exceptions unchanged; hence no transaction in the store
\* lacks an amount, a categoryId or an accountId.
C18_Validation ==
    /\ [][(lastOp'.op \in SaveOps \cup {"rejected"} /\ Incomplete(lastOp'.input)) =>
            /\ lastOp'.op = "rejected"
            /\ UNCHANGED <<transactions, recurrenceRules, recurrenceExceptions>>]_vars
    /\ [](\A t \in transactions : ~Incomplete(t))

\* the edit form of a stored transaction was submitted with its amount
\* cleared, and was rejected
C18_Witness ==
    /\ lastOp.op = "rejected"
    /\ lastOp.target \in transactions
    /\ lastOp.input.amount = NaN
    /\ recurrenceRules # {}

\* expand(rules, transactions, displayed month, displayed year, exceptions)
\* over the current state
ExpandDisplayed ==
    GenerateMissingRecurringTransactions(recurrenceRules, transactions, dateFilter.month,
                                         dateFilter.year, recurrenceExceptions, nextId)

\* the displayed month or year has changed
MonthYearChanged ==
    dateFilter'.month # dateFilter.month \/ dateFilter'.year # dateFilter.year

\* C19 (trigger contract): whenever the displayed month/year or the rule set
\* changes, the expansion runs on the new month/year, rules, transactions
\* and exceptions, and each transaction it returns is in the store once; the
\* state that follows is quiescent: no further pass is needed, expand over
\* it for the displayed month is empty.
C19_TriggerContract ==
    [][(MonthYearChanged \/ recurrenceRules' # recurrenceRules) =>
          /\ generated' =
               GenerateMissingRecurringTransactions(recurrenceRules',
                   transactions' \ generated', dateFilter'.month, dateFilter'.year,
                   recurrenceExceptions', nextId' - Cardinality(generated'))
          /\ generated' \subseteq transactions'
          /\ generated' \cap transactions = {}
          /\ \A g \in generated' :
               Cardinality({t \in transactions' :
                   t.recurrenceRuleId = g.recurrenceRuleId /\ t.date = g.date}) = 1
          /\ ExpandDisplayed' = {}]_vars

\* a month change made the expansion add the instance of a rule, while
\* another rule, already closed, stayed silent
C19_Witness ==
    /\ lastOp.op = "changeMonth"
    /\ generated # {}
    /\ Cardinality(recurrenceRules) = 2
    /\ Cardinality(generated) = 1
    /\ ExpandDisplayed = {}

\* C20 (category deletion does not cascade): confirming the deletion of a
\* category removes that category and no other, and leaves every transaction
\* and every rule as it was, those of the deleted category included.
C20_CategoryDelete ==
    [][lastOp'.op = "deleteCategory" =>
        /\ lastOp'.category \in categories
        /\ categories' = categories \ {lastOp'.category}
        /\ transactions' = transactions
        /\ recurrenceRules' = recurrenceRules]_vars

\* the deleted category is the one of a stored transaction and of a rule,
\* and another category is left
C20_Witness ==
    /\ lastOp.op = "deleteCategory"
    /\ lastOp.category \notin categories
    /\ categories # {}
    /\ \E t \in transactions : t.categoryId = lastOp.category
    /\ \E r \in recurrenceRules : r.categoryId = lastOp.category

----------------------------------------------------------------------------
(* Frame of the exception set (checked under Spec) *)

\* the operations that never touch the exception set
ExceptionFrameOps ==
    {"createRule", "create", "detach", "edit", "updateFuture", "updateFutureNoRule",
     "rejected", "deleteRequest", "deleteTransaction", "deleteCategory",
     "changeMonth", "changePeriod"}

\* the exception of a recurring instance
ExceptionOf(tx) == [ruleId |-> tx.recurrenceRuleId, date |-> tx.date]

----------------------------------------------------------------------------
(* Properties of the filter (checked under SpecFilter) *)

\* C22 (filter correctness): the displayed list holds exactly the stored
\* transactions dated in the displayed month and year and, for period Q1, on
\* a day up to the 15th, for period Q2, on a day from the 16th; MONTH and ALL
\* add no restriction. A transaction of 2024-02-16 is therefore left out of
\* Q1 of February 2024 and listed for Q2, MONTH and ALL.
C22_FilterCorrect ==
    /\ Displayed \subseteq transactions
    /\ \A t \in transactions :
          t \in Displayed <=>
            /\ YearOf(t.date) = dateFilter.year
            /\ MonthOf(t.date) = dateFilter.month + 1
            /\ dateFilter.period = "Q1" => DayOf(t.date) <= 15
            /\ dateFilter.period = "Q2" => DayOf(t.date) >= 16
    /\ (dateFilter.month = 1 /\ dateFilter.year = 2024) =>
          \A t \in {u \in transactions : u.date = 20240216} :
              t \in Displayed <=> dateFilter.period # "Q1"

\* the first half of February 2024 is displayed after a change of period;
\* the store holds transactions of the 15th and of the 16th and only the
\* first is listed
C22_Witness ==
    /\ lastOp.op = "changePeriod"
    /\ dateFilter = [month |-> 1, year |-> 2024, period |-> "Q1"]
    /\ FilterSample(20240215) \in Displayed
    /\ FilterSample(20240216) \in transactions \ Displayed

----------------------------------------------------------------------------
(* Properties of loading the data again (checked under Spec) *)

\* C23 (exceptions survive re-initialisation): when the data is loaded
\* again, every exception recorded before is still in the exception set and
\* the expansion that follows returns no instance for an excepted pair.
C23_ExceptionsSurvive ==
    [][lastOp'.op \in {"initData", "initDataFallback"} =>
          /\ recurrenceExceptions \subseteq recurrenceExceptions'
          /\ \A e \in recurrenceExceptions :
                ~\E t \in generated' :
                    t.recurrenceRuleId = e.ruleId /\ t.date = e.date]_vars

----------------------------------------------------------------------------
(* Properties of the confirmed deletion (checked under Spec) *)

\* C30 (confirmed deletion): confirming the deletion of a transaction that
\* is not recurring removes exactly that transaction; every other
\* transaction in the store at the moment of the confirmation, among them
\* those added since the deletion was requested, is in the store afterwards.
C30_ConfirmRemovesOne ==
    [][lastOp'.op = "deleteTransaction" =>
          transactions' = transactions \ {lastOp'.target}]_vars

----------------------------------------------------------------------------
(* Properties of the series in the store (checked under Spec) *)

\* the two dates lie in the same calendar month
SameMonth(d1, d2) == YearOf(d1) = YearOf(d2) /\ MonthOf(d1) = MonthOf(d2)

\* the transactions of the given rules dated in the month of the given date
SeriesInMonth(txs, ruleIds, date) ==
    {t \in txs : t.recurrenceRuleId \in ruleIds /\ SameMonth(t.date, date)}

\* C24 (no regeneration after 'update future'): after an 'update future'
\* edit of the instance of rule R in month M whose new date is in M as well,
\* month M holds exactly one transaction of the series, the edited one,
\* linked to the new rule, and the expansion that the rule change triggers
\* returns no instance of R in M.
C24_NoRegeneration ==
    [][(lastOp'.op = "updateFuture" /\ SameMonth(lastOp'.saved.date, lastOp'.target.date)) =>
          LET R == lastOp'.target.recurrenceRuleId
              N == lastOp'.saved.recurrenceRuleId
              d == lastOp'.target.date
          IN  /\ N # R
              /\ SeriesInMonth(transactions', {R, N}, d) = {lastOp'.saved}
              /\ SeriesInMonth(generated', {R}, d) = {}]_vars

\* C25 (lifetime): every stored transaction linked to a rule of the rule set
\* is dated within the lifetime of that rule: not before its startDate and,
\* when the rule has an endDate, not after it.
C25_WithinLifetime ==
    \A t \in transactions : \A r \in recurrenceRules :
        r.id = t.recurrenceRuleId =>
            /\ t.date >= r.startDate
            /\ r.endDate # NoDate => t.date <= r.endDate

\* C26 (one instance per rule and month): for every rule and every calendar
\* month the store holds at most one transaction linked to that rule and
\* dated in that month, the month in which the rule was created included.
C26_OnePerRuleAndMonth ==
    \A r \in recurrenceRules : \A t1, t2 \in transactions :
        (/\ t1.recurrenceRuleId = r.id
         /\ t2.recurrenceRuleId = r.id
         /\ SameMonth(t1.date, t2.date)) => t1 = t2

\* C27 (no duplicate slot): no two stored transactions are linked to the same
\* rule and carry the same date.
C27_NoDuplicateSlot ==
    \A t1, t2 \in transactions :
        (/\ t1.recurrenceRuleId # NoRule
         /\ t1.recurrenceRuleId = t2.recurrenceRuleId
         /\ t1.date = t2.date) => t1 = t2

\* the expansion ran for the displayed month after a rule was created there;
\* the slot of the rule was taken by the transaction the rule was created
\* from and nothing was generated
C27_Witness ==
    /\ lastOp.op = "createRule"
    /\ generated = {}
    /\ \E r \in recurrenceRules :
          /\ r.id = lastOp.saved.recurrenceRuleId
          /\ lastOp.saved \in transactions
          /\ lastOp.saved.date =
               CandidateDate(r, dateFilter.year, dateFilter.month + 1)

\* C28 (referential integrity): every rule id carried by a stored transaction
\* and every rule id carried by an exception names a rule of the rule set.
C28_ReferentialIntegrity ==
    /\ \A t \in transactions :
          t.recurrenceRuleId # NoRule => RuleExists(recurrenceRules, t.recurrenceRuleId)
    /\ \A e \in recurrenceExceptions : RuleExists(recurrenceRules, e.ruleId)

\* C29 ('update future' without its rule): when 'update future' is asked for
\* a transaction whose rule id names no rule of the rule set, the save leaves
\* the transactions, the rules, the exceptions and the balances as they
\* were: no rule is created or end-dated and the edited fields are not
\* stored.
C29_MissingRuleNoOp ==
    [][lastOp'.op = "updateFutureNoRule" =>
          /\ ~RuleExists(recurrenceRules, lastOp'.target.recurrenceRuleId)
          /\ lastOp'.form.updateFuture
          /\ transactions' = transactions
          /\ recurrenceRules' = recurrenceRules
          /\ recurrenceExceptions' = recurrenceExceptions
          /\ accounts' = accounts]_vars

\* 'update future' was asked with changed fields for a transaction whose
\* rule is gone, and the transaction is in the store as it was
C29_Witness ==
    /\ lastOp.op = "updateFutureNoRule"
    /\ lastOp.target \in transactions
    /\ lastOp.input.amount # lastOp.target.amount
    /\ recurrenceRules = {}

====
